---- MODULE Spec2Model ----
(***************************************************************************)
(* Offline durability and synchronisation core of feedback-widget-native:  *)
(* the OfflineQueue (persistent queue store, connectivity monitor, sync    *)
(* engine) and the routing logic of FeedbackWidget.submitFeedback.         *)
(*                                                                         *)
(* Every asynchronous method is cut at its awaits: a step runs from one    *)
(* resumption to the next suspension, and steps of different tasks         *)
(* interleave freely, as on the single JavaScript thread.                  *)
(***************************************************************************)
EXTENDS Integers, Sequences, FiniteSets, TLC

VARIABLES
    store,           \* the queue persisted under STORAGE_KEY
    persisted,       \* what AsyncStorage holds under STORAGE_KEY
    nextId,          \* ids handed out so far (Date.now()-random: always fresh)
    maxRetries,      \* OfflineQueue.config.maxRetries as stored by the constructor
    isConnected,     \* OfflineQueue.isConnected
    syncInProgress,  \* OfflineQueue.syncInProgress
    timers,          \* pending setTimeout(() => this.sync(), 2000) callbacks
    pass,            \* locals of the running sync() call and its position
    syncRet,         \* how the most recent sync() call ended, and its counts
    attempts,        \* per record id: invocations of the delivery function
    faults,          \* storage writes rejected and observers thrown so far
    scenario,        \* environment: "free", or a fixed delivery function
    subscribed,      \* init() has resumed: both listeners are registered
    calls,           \* sync() calls the scenario driver has made
    isSubmitting,    \* FeedbackWidget.isSubmitting
    sub,             \* locals of the submitFeedback() call and its position
    resp,            \* what the most recent submit() call returned
    cb,              \* facade callbacks invoked by the most recent submit()
    instance,        \* FeedbackWidget.instance and the life of its queue
    initRet,         \* how the most recent FeedbackWidget.init() call ended
    other,           \* the fields of a second OfflineQueue instance, if there is one
    parked           \* a submit() waiting for its queueSubmission beside the one in sub

vars == <<store, persisted, nextId, maxRetries, isConnected, syncInProgress, timers,
          pass, syncRet, attempts, faults, scenario, subscribed, calls,
          isSubmitting, sub, resp, cb, instance, initRet, other, parked>>

queueVars == <<maxRetries, scenario>>
facadeVars == <<isSubmitting, sub, resp, cb>>
widgetVars == <<instance, initRet, other, parked>>

----------------------------------------------------------------------------
(* Bounds of the model *)

MaxEnqueues == 2
MaxFaults == 1
MaxTimers == 1

(* Program constants *)

DefaultMaxRetries == 3
Unset == -1

Ids == 1..MaxEnqueues

----------------------------------------------------------------------------
(* Persistent queue store: pure parts of enqueue / remove / update *)

QueuedSubmission(id) == [id |-> id, retryCount |-> 0]

\* queue.push(queuedItem)
pushItem(queue, item) == Append(queue, item)

\* a filter that keeps the record it should drop
filterKeepsAll(queue, id) == queue

\* queue.filter(item => item.id !== id)
filterOut(queue, id) == SelectSeq(queue, LAMBDA r : r.id # id)

\* queue.findIndex(q => q.id === item.id), 0 standing for -1
findIndex(queue, id) ==
    IF \E i \in 1..Len(queue) : queue[i].id = id
    THEN CHOOSE i \in 1..Len(queue) :
             /\ queue[i].id = id
             /\ \A j \in 1..(i - 1) : queue[j].id # id
    ELSE 0

\* an update that moves the item to the end of the queue
replaceAtEnd(queue, index, item) ==
    SubSeq(queue, 1, index - 1) \o SubSeq(queue, index + 1, Len(queue)) \o <<item>>

\* queue[index] = item
replaceAt(queue, index, item) == [queue EXCEPT ![index] = item]

\* what AsyncStorage may hold under STORAGE_KEY: "queue", the JSON text of
\* the array store; "missing", nothing (getItem resolves to null);
\* "unreadable", a value getItem rejects for; "unparsable", a text
\* JSON.parse throws on; "otherJson", a JSON text of something that is not
\* an array (null, {}). Outside "queue" the variable store is empty.
PersistedKinds == {"queue", "missing", "unreadable", "unparsable", "otherJson"}

\* getQueue() returns an array: data ? JSON.parse(data) : [] gives the stored
\* array, [] for null, and the catch block gives [] for a rejected read and
\* for a parse error; any other JSON value is returned as it is
parsesToArray == persisted # "otherJson"

\* getQueue(), when it returns an array
getQueue == IF persisted = "queue" THEN store ELSE <<>>

\* standing for what queue.length is of a value that is not an array:
\* undefined, or a TypeError for null
NoCount == -1

\* getPendingCount(): queue.length of a fresh read
getPendingCount == IF parsesToArray THEN Len(getQueue) ELSE NoCount

\* saveQueue(queue): AsyncStorage.setItem(STORAGE_KEY, JSON.stringify(queue))
\* resolves (wrOk) or rejects
saveQueue(queue, wrOk) ==
    /\ store' = IF wrOk THEN queue ELSE store
    /\ persisted' = IF wrOk THEN "queue" ELSE persisted

\* the constructor's { maxRetries: config.maxRetries ?? 3, ...config }
constructorMaxRetries(configured) ==
    IF configured = Unset THEN DefaultMaxRetries ELSE configured

\* (this.config.maxRetries || 3)
retryBudget == IF maxRetries = 0 \/ maxRetries = Unset
               THEN DefaultMaxRetries ELSE maxRetries

\* the eviction test with > in place of >=
overBudgetStrict(item) == item.retryCount > retryBudget

\* item.retryCount >= (this.config.maxRetries || 3)
overBudget(item) == item.retryCount >= retryBudget

----------------------------------------------------------------------------
(* Environment: what a storage write, an observer or the delivery function *)
(* may do                                                                  *)

\* outcomes of AsyncStorage.setItem, or of an observer callback, after n
\* faults: TRUE = returns, FALSE = rejects / throws
Outcomes(n) ==
    {TRUE} \cup (IF scenario = "free" /\ n.storage + n.observer < MaxFaults
                 THEN {FALSE} ELSE {})

\* one more rejected storage write, one more thrown observer
StorageFault(n) == [n EXCEPT !.storage = @ + 1]
ObserverFault(n) == [n EXCEPT !.observer = @ + 1]
NoFaults == [storage |-> 0, observer |-> 0]

\* outcomes of await this.syncCallback(item); the scenario "none" has no
\* delivery function registered
DeliveryOutcomes ==
    CASE scenario = "alwaysOk"   -> {"true"}
      [] scenario = "alwaysFail" -> {"false", "throw"}
      [] OTHER                   -> {"true", "false", "throw"}

\* what transport.submitFeedback does with a queued submission: "ok" is
\* { success: true, feedback_id }, "noId" a success without feedback_id,
\* "fails" { success: false, error }, "throws" a rejection
Primaries == {"ok", "noId", "fails", "throws"}

\* a delivery function that gives up a delivered record whose screenshot
\* upload has failed
syncQueuedSubmissionStrict(primary, shot, uploaded) ==
    IF primary = "ok" /\ (~shot \/ uploaded) THEN "true" ELSE "false"

\* FeedbackWidget.syncQueuedSubmission(queued); shot: queued.screenshotUri is
\* set; uploaded: what uploadScreenshot resolves to, which is not looked at
\* (uploadScreenshot catches whatever its body throws)
syncQueuedSubmission(primary, shot, uploaded) ==
    IF primary = "ok" THEN "true" ELSE "false"

\* whether the delivery came to upload a screenshot, and how that went
uploadOf(primary, shot, uploaded) ==
    IF primary = "ok" /\ shot
    THEN (IF uploaded THEN "ok" ELSE "failed")
    ELSE "none"

\* the delivery function at work: in the scenario "facade" the one
\* FeedbackWidget's constructor registers, with the transport and the upload
\* doing what they please; otherwise any function with the outcomes above
Deliveries ==
    IF scenario = "facade"
    THEN {[out |-> syncQueuedSubmission(primary, shot, uploaded),
           upload |-> uploadOf(primary, shot, uploaded)] :
             primary \in Primaries, shot \in BOOLEAN, uploaded \in BOOLEAN}
    ELSE {[out |-> out, upload |-> "none"] : out \in DeliveryOutcomes}

----------------------------------------------------------------------------
(* Sync engine: OfflineQueue.sync() *)

\* pending: the items of the snapshot the for loop has not finished, the
\* current one first; signals: the per-record observers called for the
\* current item, as the observers of a fixed scenario record them; upload:
\* the screenshot upload of the current item's delivery ("none", "ok",
\* "failed"), as the transport of the scenario "facade" records it
IdlePass == [pc |-> "idle", pending |-> <<>>, succeeded |-> 0,
             failed |-> 0, local |-> <<>>, pre |-> 0, signals |-> <<>>,
             upload |-> "none"]

\* this.config.onSubmissionSynced?.(id) / onSubmissionFailed?.(id, ..) returns
Signal(p, name) ==
    IF scenario = "free" THEN p ELSE [p EXCEPT !.signals = Append(@, name)]

\* the fields each OfflineQueue instance has of its own (the storage key is
\* shared); instance "none": there is no second instance
NoOther == [instance |-> "none", syncInProgress |-> FALSE, isConnected |-> TRUE,
            subscribed |-> FALSE, timers |-> 0, pass |-> IdlePass]

Skipped == [kind |-> "skipped", succeeded |-> 0, failed |-> 0]
Running == [kind |-> "running", succeeded |-> 0, failed |-> 0]
Rejected == [kind |-> "rejected", succeeded |-> 0, failed |-> 0]

\* the guard of sync() with its in-progress test only
SyncSkipsInProgressOnly(connected) == syncInProgress

\* the guard of sync() without its in-progress test
SyncSkipsOfflineOnly(connected) == ~connected

\* if (!this.isConnected || this.syncInProgress || !this.syncCallback)
SyncSkips(connected) == ~connected \/ syncInProgress \/ scenario = "none"

\* the item of the snapshot the loop is at
CurItem == Head(pass.pending)

\* finally { syncInProgress = false; onSyncComplete?.(..) } and the return;
\* thrown: an exception is passing through the finally block
Finish(s, f, thrown, n) ==
    \E cbOk \in Outcomes(n) :
        /\ syncInProgress' = FALSE
        /\ pass' = IdlePass
        /\ faults' = IF cbOk THEN n ELSE ObserverFault(n)
        /\ syncRet' = IF thrown \/ ~cbOk
                      THEN Rejected
                      ELSE [kind |-> "resolved", succeeded |-> s, failed |-> f]

\* top of the for loop with the locals p, up to the next await
LoopHead(p, n) ==
    IF p.pending = <<>>
    THEN Finish(p.succeeded, p.failed, FALSE, n)
    ELSE IF overBudget(Head(p.pending))
         THEN \E cbOk \in Outcomes(n) :    \* onSubmissionFailed(id, 'Max retries exceeded')
                 IF cbOk
                 THEN /\ pass' = Signal([p EXCEPT !.pc = "evictRead", !.signals = <<>>,
                                                   !.upload = "none"], "failed")
                      /\ faults' = n
                      /\ UNCHANGED <<syncInProgress, syncRet>>
                 ELSE Finish(p.succeeded, p.failed, TRUE, ObserverFault(n))
         ELSE /\ pass' = [p EXCEPT !.pc = "deliver", !.signals = <<>>,
                                    !.upload = "none",
                                    !.pre = Head(p.pending).retryCount]
              /\ faults' = n
              /\ UNCHANGED <<syncInProgress, syncRet>>

\* sync() from its call to its first await (or its early return)
SyncEntry(connected) ==
    IF SyncSkips(connected)
    THEN /\ syncRet' = Skipped
         /\ UNCHANGED <<syncInProgress, pass, faults>>
    ELSE \E cbOk \in Outcomes(faults) :    \* onSyncStart, outside the try
            /\ syncInProgress' = TRUE
            /\ faults' = IF cbOk THEN faults ELSE ObserverFault(faults)
            /\ IF cbOk
               THEN pass' = [IdlePass EXCEPT !.pc = "getPending"] /\ syncRet' = Running
               ELSE pass' = pass /\ syncRet' = Rejected

\* const pending = await this.getPending()
SyncGetPending ==
    /\ pass.pc = "getPending"
    /\ IF parsesToArray
       THEN LoopHead([pass EXCEPT !.pending = getQueue], faults)
       ELSE Finish(0, 0, TRUE, faults)    \* for (.. of pending) throws
    /\ UNCHANGED <<store, persisted, nextId, maxRetries, isConnected, timers, attempts,
                   scenario, subscribed, calls, facadeVars, widgetVars>>

\* remove(item.id) of an over-budget item: const queue = await this.getQueue()
SyncEvictRead ==
    /\ pass.pc = "evictRead"
    /\ IF parsesToArray
       THEN /\ pass' = [pass EXCEPT !.pc = "evictWrite", !.local = getQueue]
            /\ UNCHANGED <<syncInProgress, syncRet, faults>>
       ELSE Finish(pass.succeeded, pass.failed, TRUE, faults)    \* queue.filter throws
    /\ UNCHANGED <<store, persisted, nextId, maxRetries, isConnected, timers,
                   attempts, scenario, subscribed, calls, facadeVars, widgetVars>>

\* await this.saveQueue(filtered); failed++; continue
SyncEvictWrite ==
    /\ pass.pc = "evictWrite"
    /\ \E wrOk \in Outcomes(faults) :
          /\ saveQueue(filterOut(pass.local, CurItem.id), wrOk)
          /\ IF wrOk
             THEN LoopHead([pass EXCEPT !.failed = @ + 1, !.pending = Tail(@),
                                        !.local = <<>>], faults)
             ELSE Finish(pass.succeeded, pass.failed, TRUE, StorageFault(faults))
    /\ UNCHANGED <<nextId, maxRetries, isConnected, timers, attempts,
                   scenario, subscribed, calls, facadeVars, widgetVars>>

\* item.retryCount++ (on the snapshot's item) and the call of update(item)
BumpThen(p, pc) ==
    [p EXCEPT !.pending[1].retryCount = @ + 1, !.pc = pc, !.local = <<>>]

\* const success = await this.syncCallback(item)
SyncDeliver ==
    /\ pass.pc = "deliver"
    /\ attempts' = [attempts EXCEPT ![CurItem.id] = @ + 1]
    /\ \E d \in Deliveries :
          pass' = CASE d.out = "true"
                         -> [pass EXCEPT !.pc = "rmRead", !.upload = d.upload]
                    [] d.out = "false"
                         -> BumpThen([pass EXCEPT !.upload = d.upload], "updRead")
                    [] OTHER
                         -> BumpThen(pass, "cupdRead")
    /\ UNCHANGED <<store, persisted, nextId, maxRetries, isConnected, syncInProgress, timers,
                   syncRet, faults, scenario, subscribed, calls, facadeVars, widgetVars>>

\* remove(item.id) after a delivery: const queue = await this.getQueue()
SyncRemoveRead ==
    /\ pass.pc = "rmRead"
    /\ pass' = IF parsesToArray
               THEN [pass EXCEPT !.pc = "rmWrite", !.local = getQueue]
               ELSE BumpThen(pass, "cupdRead")    \* queue.filter throws
    /\ UNCHANGED <<store, persisted, nextId, maxRetries, isConnected, syncInProgress, timers,
                   syncRet, attempts, faults, scenario, subscribed, calls, facadeVars, widgetVars>>

\* await this.saveQueue(filtered); onSubmissionSynced?.(id); succeeded++
\* a rejected write or a throwing observer lands in the catch block
SyncRemoveWrite ==
    /\ pass.pc = "rmWrite"
    /\ \E wrOk \in Outcomes(faults) :
          /\ saveQueue(filterOut(pass.local, CurItem.id), wrOk)
          /\ IF wrOk
             THEN \E cbOk \in Outcomes(faults) :
                     IF cbOk
                     THEN /\ pass' = Signal([pass EXCEPT !.pc = "delay",
                                                         !.succeeded = @ + 1,
                                                         !.local = <<>>], "synced")
                          /\ faults' = faults
                     ELSE /\ pass' = BumpThen(pass, "cupdRead")
                          /\ faults' = ObserverFault(faults)
             ELSE /\ pass' = BumpThen(pass, "cupdRead")
                  /\ faults' = StorageFault(faults)
    /\ UNCHANGED <<nextId, maxRetries, isConnected, syncInProgress, timers, syncRet,
                   attempts, scenario, subscribed, calls, facadeVars, widgetVars>>

\* an update(item) that writes whether or not it has found the id
SyncUpdateReadAlways ==
    /\ pass.pc = "updRead"
    /\ pass' = [pass EXCEPT !.pc = "updWrite", !.local = getQueue \o <<CurItem>>]
    /\ UNCHANGED <<store, persisted, nextId, maxRetries, isConnected, syncInProgress, timers,
                   syncRet, attempts, faults, scenario, subscribed, calls, facadeVars, widgetVars>>

\* update(item) in the else branch: getQueue, findIndex; absent: no write
SyncUpdateRead ==
    /\ pass.pc = "updRead"
    /\ pass' = IF ~parsesToArray
               THEN BumpThen(pass, "cupdRead")    \* queue.findIndex throws
               ELSE IF findIndex(getQueue, CurItem.id) = 0
                    THEN [pass EXCEPT !.pc = "delay", !.failed = @ + 1]
                    ELSE [pass EXCEPT !.pc = "updWrite", !.local = getQueue]
    /\ UNCHANGED <<store, persisted, nextId, maxRetries, isConnected, syncInProgress, timers,
                   syncRet, attempts, faults, scenario, subscribed, calls, facadeVars, widgetVars>>

\* queue[index] = item; await this.saveQueue(queue); failed++
SyncUpdateWrite ==
    /\ pass.pc = "updWrite"
    /\ \E wrOk \in Outcomes(faults) :
          /\ saveQueue(replaceAt(pass.local, findIndex(pass.local, CurItem.id), CurItem),
                       wrOk)
          /\ IF wrOk
             THEN /\ pass' = [pass EXCEPT !.pc = "delay", !.failed = @ + 1, !.local = <<>>]
                  /\ faults' = faults
             ELSE /\ pass' = BumpThen(pass, "cupdRead")
                  /\ faults' = StorageFault(faults)
    /\ UNCHANGED <<nextId, maxRetries, isConnected, syncInProgress, timers, syncRet,
                   attempts, scenario, subscribed, calls, facadeVars, widgetVars>>

\* after update(item) in the catch block: onSubmissionFailed?.(..); failed++
AfterCatchUpdate(n) ==
    \E cbOk \in Outcomes(n) :
        IF cbOk
        THEN /\ pass' = Signal([pass EXCEPT !.pc = "delay", !.failed = @ + 1,
                                            !.local = <<>>], "failed")
             /\ faults' = n
             /\ UNCHANGED <<syncInProgress, syncRet>>
        ELSE Finish(pass.succeeded, pass.failed, TRUE, ObserverFault(n))

\* update(item) in the catch block: getQueue, findIndex; absent: no write
SyncCatchUpdateRead ==
    /\ pass.pc = "cupdRead"
    /\ IF ~parsesToArray
       THEN Finish(pass.succeeded, pass.failed, TRUE, faults)    \* queue.findIndex throws
       ELSE IF findIndex(getQueue, CurItem.id) = 0
            THEN AfterCatchUpdate(faults)
            ELSE /\ pass' = [pass EXCEPT !.pc = "cupdWrite", !.local = getQueue]
                 /\ UNCHANGED <<syncInProgress, syncRet, faults>>
    /\ UNCHANGED <<store, persisted, nextId, maxRetries, isConnected, timers, attempts,
                   scenario, subscribed, calls, facadeVars, widgetVars>>

\* queue[index] = item; await this.saveQueue(queue) in the catch block: a
\* rejected write leaves sync() through the finally block
SyncCatchUpdateWrite ==
    /\ pass.pc = "cupdWrite"
    /\ \E wrOk \in Outcomes(faults) :
          /\ saveQueue(replaceAt(pass.local, findIndex(pass.local, CurItem.id), CurItem),
                       wrOk)
          /\ IF wrOk
             THEN AfterCatchUpdate(faults)
             ELSE Finish(pass.succeeded, pass.failed, TRUE, StorageFault(faults))
    /\ UNCHANGED <<nextId, maxRetries, isConnected, timers, attempts,
                   scenario, subscribed, calls, facadeVars, widgetVars>>

\* await new Promise(resolve => setTimeout(resolve, 100)), then the next item
SyncDelay ==
    /\ pass.pc = "delay"
    /\ LoopHead([pass EXCEPT !.pending = Tail(@)], faults)
    /\ UNCHANGED <<store, persisted, nextId, maxRetries, isConnected, timers, attempts,
                   scenario, subscribed, calls, facadeVars, widgetVars>>

----------------------------------------------------------------------------
(* Connectivity monitor: init(), handleNetworkChange, handleAppStateChange *)

\* init(): state = await NetInfo.fetch(); isConnected = state.isConnected ?? true;
\* both listeners are added; if (this.isConnected) this.sync()
InitResume(fetched) ==
    /\ ~subscribed
    /\ subscribed' = TRUE
    /\ isConnected' = fetched
    /\ IF fetched
       THEN SyncEntry(fetched)
       ELSE UNCHANGED <<syncInProgress, pass, syncRet, faults>>
    /\ UNCHANGED <<store, persisted, nextId, timers, attempts, calls, queueVars, widgetVars, facadeVars>>

\* a handler that schedules a sync on every event reporting a connection
handleNetworkChangeEager(connected) ==
    /\ subscribed
    /\ isConnected' = connected
    /\ IF connected
       THEN timers < MaxTimers /\ timers' = timers + 1
       ELSE timers' = timers
    /\ UNCHANGED <<store, persisted, nextId, syncInProgress, pass, syncRet, attempts, faults,
                   subscribed, calls, queueVars, widgetVars, facadeVars>>

\* handleNetworkChange(state), state.isConnected ?? false
handleNetworkChange(connected) ==
    /\ subscribed
    /\ isConnected' = connected
    /\ IF ~isConnected /\ connected
       THEN timers < MaxTimers /\ timers' = timers + 1
       ELSE timers' = timers
    /\ UNCHANGED <<store, persisted, nextId, syncInProgress, pass, syncRet, attempts, faults,
                   subscribed, calls, queueVars, widgetVars, facadeVars>>

\* the callback of setTimeout(() => this.sync(), 2000)
TimerFires ==
    /\ timers > 0
    /\ timers' = timers - 1
    /\ SyncEntry(isConnected)
    /\ UNCHANGED <<store, persisted, nextId, isConnected, attempts, subscribed, calls,
                   queueVars, widgetVars, facadeVars>>

\* a foreground handler that does not look at the online flag
handleAppStateChangeUngated(nextAppState) ==
    /\ subscribed
    /\ IF nextAppState = "active"
       THEN SyncEntry(isConnected)
       ELSE UNCHANGED <<syncInProgress, pass, syncRet, faults>>
    /\ UNCHANGED <<store, persisted, nextId, isConnected, timers, attempts, subscribed, calls,
                   queueVars, widgetVars, facadeVars>>

\* handleAppStateChange(nextAppState)
handleAppStateChange(nextAppState) ==
    /\ subscribed
    /\ IF nextAppState = "active" /\ isConnected
       THEN SyncEntry(isConnected)
       ELSE UNCHANGED <<syncInProgress, pass, syncRet, faults>>
    /\ UNCHANGED <<store, persisted, nextId, isConnected, timers, attempts, subscribed, calls,
                   queueVars, widgetVars, facadeVars>>

\* FeedbackWidget.syncOffline(): offlineQueue.sync()
syncOffline ==
    /\ scenario \in {"free", "facade"}
    /\ SyncEntry(isConnected)
    /\ UNCHANGED <<store, persisted, nextId, isConnected, timers, attempts, subscribed, calls,
                   queueVars, widgetVars, facadeVars>>

----------------------------------------------------------------------------
(* Error texts, as sequences of characters, and isNetworkError *)

LowerCaseOf ==
    [c \in {"A","B","C","D","E","F","G","H","I","J","K","L","M","N","O","P","Q",
            "R","S","T","U","V","W","X","Y","Z"} |->
        CASE c = "A" -> "a" [] c = "B" -> "b" [] c = "C" -> "c" [] c = "D" -> "d"
          [] c = "E" -> "e" [] c = "F" -> "f" [] c = "G" -> "g" [] c = "H" -> "h"
          [] c = "I" -> "i" [] c = "J" -> "j" [] c = "K" -> "k" [] c = "L" -> "l"
          [] c = "M" -> "m" [] c = "N" -> "n" [] c = "O" -> "o" [] c = "P" -> "p"
          [] c = "Q" -> "q" [] c = "R" -> "r" [] c = "S" -> "s" [] c = "T" -> "t"
          [] c = "U" -> "u" [] c = "V" -> "v" [] c = "W" -> "w" [] c = "X" -> "x"
          [] c = "Y" -> "y" [] c = "Z" -> "z"]

\* error.toLowerCase()
toLowerCase(text) ==
    [i \in 1..Len(text) |->
        IF text[i] \in DOMAIN LowerCaseOf THEN LowerCaseOf[text[i]] ELSE text[i]]

\* lower.includes(e)
includes(text, e) ==
    \E i \in 1..(Len(text) - Len(e) + 1) : SubSeq(text, i, i + Len(e) - 1) = e

\* const networkErrors = ['network', 'fetch', 'timeout', 'offline', 'ECONNREFUSED']
networkErrors ==
    << <<"n","e","t","w","o","r","k">>,
       <<"f","e","t","c","h">>,
       <<"t","i","m","e","o","u","t">>,
       <<"o","f","f","l","i","n","e">>,
       <<"E","C","O","N","N","R","E","F","U","S","E","D">> >>

\* a classification that takes every failure for a network error
classifiesEverything(error) == TRUE

\* isNetworkError(error); the empty text stands for an absent one (!error)
isNetworkError(error) ==
    IF error = <<>>
    THEN FALSE
    ELSE \E k \in 1..Len(networkErrors) : includes(toLowerCase(error), networkErrors[k])

\* error texts the transport is made to fail with
NetworkRequestFailed ==
    <<"N","e","t","w","o","r","k"," ","r","e","q","u","e","s","t"," ",
      "f","a","i","l","e","d">>
InvalidTitle == <<"I","n","v","a","l","i","d"," ","t","i","t","l","e">>
ConnectRefused ==
    <<"c","o","n","n","e","c","t"," ","E","C","O","N","N","R","E","F","U","S","E","D">>
ErrorTexts == <<NetworkRequestFailed, InvalidTitle, ConnectRefused>>

----------------------------------------------------------------------------
(* Widget facade: FeedbackWidget.submitFeedback / queueSubmission, and    *)
(* OfflineQueue.enqueue                                                    *)

\* online: the online flag at the routing decision; how: the way the call was
\* routed; transport: transport.submitFeedback was invoked; before: the
\* pending count when submit() was called
IdleSub == [pc |-> "idle", local |-> <<>>, id |-> 0, how |-> "none", text |-> 0,
            transport |-> FALSE, before |-> 0, online |-> TRUE]

\* a SubmissionResponse, with how the call was routed: kind "offline" is
\* { success: true, feedback_id: `offline-${id}` }, "server" the transport's
\* success response, "error" a failure carrying the transport's error text,
\* "queueError" the failure of queueSubmission's catch block, "busy" the
\* failure 'Submission already in progress'
NoResp == [kind |-> "none", id |-> 0, text |-> 0, how |-> "none", transport |-> FALSE]
Busy == [NoResp EXCEPT !.kind = "busy"]
Pending == [NoResp EXCEPT !.kind = "pending"]
Response(kind, s) ==
    [kind |-> kind, id |-> IF kind = "offline" THEN s.id ELSE 0, text |-> s.text,
     how |-> s.how, transport |-> s.transport]

success(response) == response.kind \in {"offline", "server"}

NoCallbacks == [start |-> 0, success |-> 0, error |-> 0]

\* the promise of submitFeedback rejects
SubmitRejected == [NoResp EXCEPT !.kind = "rejected"]

\* what a callback of the host (onSubmitStart, onSubmitSuccess,
\* onSubmitError) does after n faults: Returns, or t > 0: it throws an Error
\* whose message is ErrorTexts[t]. Host callbacks throw in the scenario
\* "hostThrows" only.
Returns == 0
CallbackOutcomes(n) ==
    {Returns} \cup (IF scenario = "hostThrows" /\ n.storage + n.observer < MaxFaults
                    THEN 1..Len(ErrorTexts) ELSE {})
AfterCallback(n, o) == IF o = Returns THEN n ELSE ObserverFault(n)

\* return { success: false, error: 'Submission already in progress' }
BusyReturn ==
    /\ resp' = Busy
    /\ UNCHANGED <<isSubmitting, sub, cb, faults>>

\* submitFeedback() from its call to its first await (or its early return);
\* this.isSubmitting = true and onSubmitStart come before the try block, so
\* nothing catches what onSubmitStart throws and no finally block runs
SubmitCall ==
    /\ scenario \in {"free", "facade", "hostThrows"}
    /\ IF isSubmitting
       THEN BusyReturn
       ELSE /\ sub.pc = "idle"
            /\ nextId < MaxEnqueues
            /\ isSubmitting' = TRUE
            /\ cb' = [NoCallbacks EXCEPT !.start = 1]
            /\ \E o \in CallbackOutcomes(faults) :
                  /\ faults' = AfterCallback(faults, o)
                  /\ IF o = Returns
                     THEN /\ sub' = [IdleSub EXCEPT !.pc = "context",
                                                    !.before = getPendingCount]
                          /\ resp' = Pending
                     ELSE /\ sub' = sub
                          /\ resp' = SubmitRejected
    /\ UNCHANGED <<store, persisted, nextId, isConnected, syncInProgress, timers, pass, syncRet,
                   attempts, subscribed, calls, queueVars, widgetVars>>

\* enqueue(): the id is stamped, then const queue = await this.getQueue()
CallEnqueue(s, how) ==
    [s EXCEPT !.pc = "enqRead", !.how = how, !.id = nextId + 1]

\* return this.queueSubmission(submission, screenshotUri) with the locals s:
\* queueSubmission runs up to the first await of enqueue() and hands back its
\* promise, which the return statement does not await; the finally block
\* runs at once and clears the flag, and submitFeedback settles when
\* queueSubmission does
ReturnQueueSubmission(s, how) ==
    /\ sub' = CallEnqueue(s, how)
    /\ nextId' = nextId + 1
    /\ isSubmitting' = FALSE

\* the routing decision without the online check
routesOfflineNever == FALSE

\* if (!this.offlineQueue.getOnlineStatus())
routesOffline == ~isConnected

\* the routing decision: offline, queueSubmission; otherwise
\* await this.transport.submitFeedback(submission)
SubmitRoute ==
    /\ sub.pc = "context"
    /\ IF routesOffline
       THEN ReturnQueueSubmission([sub EXCEPT !.online = isConnected], "offline")
       ELSE /\ sub' = [sub EXCEPT !.pc = "transport", !.transport = TRUE,
                                  !.online = isConnected, !.how = "transport"]
            /\ UNCHANGED <<nextId, isSubmitting>>
    /\ UNCHANGED <<store, persisted, isConnected, syncInProgress, timers, pass, syncRet, attempts,
                   faults, subscribed, calls, queueVars, widgetVars, resp, cb>>

\* queueSubmission settles with the locals s, and with it the submitFeedback
\* that returned its promise; the finally block ran when it was returned
QueueSubmissionSettles(kind, s) ==
    /\ resp' = Response(kind, s)
    /\ sub' = IdleSub
    /\ UNCHANGED <<isSubmitting, cb>>

\* the finally block and the return of submitFeedback, with the locals s
SubmitReturns(kind, s, callbacks) ==
    /\ isSubmitting' = FALSE
    /\ resp' = Response(kind, s)
    /\ cb' = callbacks
    /\ sub' = IdleSub

\* submitFeedback rejects: an exception passes through the finally block
SubmitThrows(callbacks) ==
    /\ isSubmitting' = FALSE
    /\ resp' = SubmitRejected
    /\ cb' = callbacks
    /\ sub' = IdleSub

\* the catch block with the locals s, entered after n faults with an error
\* whose message is ErrorTexts[t]: a network error goes on to the queue, any
\* other is handed to onSubmitError and returned as a failure
Catch(s, t, callbacks, n) ==
    IF isNetworkError(ErrorTexts[t])
    THEN /\ sub' = [s EXCEPT !.pc = "catchContext", !.text = t, !.how = "thrown"]
         /\ cb' = callbacks
         /\ faults' = n
         /\ UNCHANGED <<isSubmitting, resp, nextId>>
    ELSE \E o \in CallbackOutcomes(n) :
            /\ faults' = AfterCallback(n, o)
            /\ nextId' = nextId
            /\ IF o = Returns
               THEN SubmitReturns("error", [s EXCEPT !.text = t, !.how = "thrown"],
                                  [callbacks EXCEPT !.error = @ + 1])
               ELSE SubmitThrows([callbacks EXCEPT !.error = @ + 1])

\* this.config.onSubmitSuccess?.(response.feedback_id!); return response --
\* inside the try block: what onSubmitSuccess throws lands in the catch block
ReportSuccess(s) ==
    \E o \in CallbackOutcomes(faults) :
        IF o = Returns
        THEN /\ SubmitReturns("server", s, [cb EXCEPT !.success = @ + 1])
             /\ UNCHANGED <<nextId, faults>>
        ELSE Catch(s, o, [cb EXCEPT !.success = @ + 1], ObserverFault(faults))

\* transport.submitFeedback resolves with { success: true, feedback_id }
TransportSucceeds(hasId, shot) ==
    IF shot /\ hasId
    THEN /\ sub' = [sub EXCEPT !.pc = "upload", !.how = "delivered"]
         /\ UNCHANGED <<isSubmitting, resp, cb, nextId, faults>>
    ELSE ReportSuccess([sub EXCEPT !.how = "delivered"])

\* transport.submitFeedback resolves with { success: false, error }; the
\* onSubmitError of this path is inside the try block
TransportFails(t) ==
    IF isNetworkError(ErrorTexts[t])
    THEN /\ ReturnQueueSubmission([sub EXCEPT !.text = t], "returned")
         /\ UNCHANGED <<resp, cb, faults>>
    ELSE \E o \in CallbackOutcomes(faults) :
            IF o = Returns
            THEN /\ SubmitReturns("error", [sub EXCEPT !.text = t, !.how = "returned"],
                                  [cb EXCEPT !.error = @ + 1])
                 /\ UNCHANGED <<nextId, faults>>
            ELSE Catch([sub EXCEPT !.text = t], o, [cb EXCEPT !.error = @ + 1],
                       ObserverFault(faults))

\* transport.submitFeedback throws: the catch block
TransportThrows(t) == Catch(sub, t, cb, faults)

\* const response = await this.transport.submitFeedback(submission)
SubmitTransport ==
    /\ sub.pc = "transport"
    /\ \/ \E hasId, shot \in BOOLEAN : TransportSucceeds(hasId, shot)
       \/ \E t \in 1..Len(ErrorTexts) : TransportFails(t)
       \/ \E t \in 1..Len(ErrorTexts) : TransportThrows(t)
    /\ UNCHANGED <<store, persisted, isConnected, syncInProgress, timers, pass, syncRet, attempts,
                   subscribed, calls, queueVars, widgetVars>>

\* the submit() locals with how the upload went, as the transport of the
\* scenario "facade" records it
Uploaded(s, uploaded) ==
    IF scenario = "facade"
    THEN [s EXCEPT !.how = IF uploaded THEN "uploaded" ELSE "uploadFailed"]
    ELSE s

\* await this.transport.uploadScreenshot(..): a failure is only logged
SubmitUpload ==
    /\ sub.pc = "upload"
    /\ \E uploaded \in BOOLEAN : ReportSuccess(Uploaded(sub, uploaded))
    /\ UNCHANGED <<store, persisted, isConnected, syncInProgress, timers, pass, syncRet,
                   attempts, subscribed, calls, queueVars, widgetVars>>

\* catch block: const context = await this.contextCollector.getContext()
SubmitCatchContext ==
    /\ sub.pc = "catchContext"
    /\ ReturnQueueSubmission(sub, "thrown")
    /\ UNCHANGED <<store, persisted, isConnected, syncInProgress, timers, pass, syncRet, attempts,
                   faults, subscribed, calls, queueVars, widgetVars, resp, cb>>

\* the fields of the FeedbackSubmission handed to queueSubmission: the try
\* block's submission, with the submitter fields when config.user has them,
\* or the literal the catch block rebuilds
BaseFields == {"type", "priority", "title", "description", "widget_version", "context"}
SubmitterFields == {"submitter_name", "submitter_email"}
queuedFields(how, user) ==
    IF how = "thrown"
    THEN BaseFields
    ELSE BaseFields \cup (IF user THEN SubmitterFields ELSE {})

\* queueSubmission: the response for an enqueue that returned (stored) or
\* threw (its catch block)
queueSubmission(stored) == IF stored THEN "offline" ELSE "queueError"

\* enqueue() rejects, and its caller's return: a direct caller gets the
\* rejection, submitFeedback returns queueSubmission's failure response
EnqueueRejects ==
    IF sub.how = "direct"
    THEN /\ sub' = IdleSub
         /\ UNCHANGED <<isSubmitting, resp, cb>>
    ELSE QueueSubmissionSettles(queueSubmission(FALSE), sub)

\* enqueue(): const queue = await this.getQueue(); on a value that is not an
\* array queue.push throws
EnqueueRead ==
    /\ sub.pc = "enqRead"
    /\ IF parsesToArray
       THEN /\ sub' = [sub EXCEPT !.pc = "enqWrite", !.local = getQueue]
            /\ UNCHANGED <<isSubmitting, resp, cb>>
       ELSE EnqueueRejects
    /\ UNCHANGED <<store, persisted, nextId, isConnected, syncInProgress, timers, pass, syncRet,
                   attempts, faults, subscribed, calls, queueVars, widgetVars>>

\* queue.push(queuedItem); await this.saveQueue(queue); return id, and the
\* caller's return: queueSubmission's response
EnqueueWrite ==
    /\ sub.pc = "enqWrite"
    /\ \E wrOk \in Outcomes(faults) :
          /\ saveQueue(pushItem(sub.local, QueuedSubmission(sub.id)), wrOk)
          /\ faults' = IF wrOk THEN faults ELSE StorageFault(faults)
          /\ IF sub.how = "direct"
             THEN /\ sub' = IdleSub
                  /\ UNCHANGED <<isSubmitting, resp, cb>>
             ELSE QueueSubmissionSettles(queueSubmission(wrOk), sub)
    /\ UNCHANGED <<nextId, isConnected, syncInProgress, timers, pass, syncRet,
                   attempts, subscribed, calls, queueVars, widgetVars>>

----------------------------------------------------------------------------
(* The program *)

\* the fields of new OfflineQueue({ maxRetries: configured, .. }) over a
\* storage holding data and no record, before init() has resumed, and of the
\* facade around it
FreshOver(configured, env, data) ==
    /\ other = NoOther
    /\ parked = IdleSub
    /\ store = <<>>
    /\ persisted = data
    /\ nextId = 0
    /\ maxRetries = constructorMaxRetries(configured)
    /\ isConnected = TRUE
    /\ syncInProgress = FALSE
    /\ timers = 0
    /\ pass = IdlePass
    /\ syncRet = [Skipped EXCEPT !.kind = "none"]
    /\ attempts = [i \in Ids |-> 0]
    /\ faults = NoFaults
    /\ scenario = env
    /\ subscribed = FALSE
    /\ calls = 0
    /\ isSubmitting = FALSE
    /\ sub = IdleSub
    /\ resp = NoResp
    /\ cb = NoCallbacks

\* the same over a storage that holds an empty queue
Fresh(configured, env) == FreshOver(configured, env, "queue")

\* FeedbackWidget.instance: "none" before init(), "live" once constructed;
\* after destroy() it is null again: "destroyed" if the queue's init() had
\* resumed by then, "destroyedEarly" if it had not
\* initRet: "created", "existing", "configError" (init() threw)
Constructed(configured, env) ==
    /\ Fresh(configured, env)
    /\ instance = "live"
    /\ initRet = "created"

\* an OfflineQueue configured with a retry budget of 1
ConfiguredRetries == {1}

Init == \E configured \in ConfiguredRetries : Constructed(configured, "free")

\* the queue as FeedbackWidget's constructor builds it: maxRetries: 3
FacadeMaxRetries == 3

FacadeInit == Constructed(FacadeMaxRetries, "free")

SyncStep ==
    \/ SyncGetPending
    \/ SyncEvictRead
    \/ SyncEvictWrite
    \/ SyncDeliver
    \/ SyncRemoveRead
    \/ SyncRemoveWrite
    \/ SyncUpdateRead
    \/ SyncUpdateWrite
    \/ SyncCatchUpdateRead
    \/ SyncCatchUpdateWrite
    \/ SyncDelay

SubmitStep ==
    \/ SubmitRoute
    \/ SubmitTransport
    \/ SubmitUpload
    \/ SubmitCatchContext
    \/ EnqueueRead
    \/ EnqueueWrite

Next ==
    \/ \E fetched \in BOOLEAN : InitResume(fetched)
    \/ \E connected \in BOOLEAN : handleNetworkChange(connected)
    \/ TimerFires
    \/ \E nextAppState \in {"active", "background"} : handleAppStateChange(nextAppState)
    \/ syncOffline
    \/ SubmitCall
    \/ SyncStep
    \/ SubmitStep

Spec == Init /\ [][Next]_vars

FacadeSpec == FacadeInit /\ [][Next]_vars

----------------------------------------------------------------------------
(* Scenarios of the test plan: a queue used directly, records enqueued one  *)
(* after another, then sync() called again and again, each call after the  *)
(* previous one has returned, with a delivery function that always succeeds *)
(* or always fails and a storage that works                                 *)

MaxCalls == 5

ScenarioRetries == {Unset, 0, 1, 3}

ScenarioInit ==
    \E configured \in ScenarioRetries, env \in {"alwaysOk", "alwaysFail"} :
        Constructed(configured, env)

\* await queue.enqueue(item), up to its first await
ScenarioEnqueue ==
    /\ calls = 0
    /\ sub.pc = "idle"
    /\ nextId < MaxEnqueues
    /\ sub' = CallEnqueue(IdleSub, "direct")
    /\ nextId' = nextId + 1
    /\ UNCHANGED <<store, persisted, isConnected, syncInProgress, timers, pass, syncRet, attempts,
                   faults, subscribed, calls, queueVars, widgetVars, isSubmitting, resp, cb>>

\* await queue.sync(), up to its first await
ScenarioSync ==
    /\ sub.pc = "idle"
    /\ pass.pc = "idle"
    /\ calls < MaxCalls
    /\ calls' = calls + 1
    /\ SyncEntry(isConnected)
    /\ UNCHANGED <<store, persisted, nextId, isConnected, timers, attempts, subscribed,
                   queueVars, widgetVars, facadeVars>>

ScenarioNext ==
    \/ ScenarioEnqueue
    \/ EnqueueRead
    \/ EnqueueWrite
    \/ ScenarioSync
    \/ SyncStep

ScenarioSpec == ScenarioInit /\ [][ScenarioNext]_vars

----------------------------------------------------------------------------
(* The life of the singleton and of its queue's monitor: FeedbackWidget.init *)
(* and destroy, or a queue a host creates itself without registering a     *)
(* delivery function (scenario "none"); records are enqueued directly, the *)
(* delivery function always succeeds or always fails, the storage works    *)

\* an init() that does not validate its config
WidgetInitUnchecked(valid) ==
    /\ scenario # "none"
    /\ IF instance = "live"
       THEN initRet' = "existing" /\ instance' = instance
       ELSE instance = "none" /\ instance' = "live" /\ initRet' = "created"
    /\ UNCHANGED <<store, persisted, nextId, isConnected, syncInProgress, timers, pass, syncRet,
                   attempts, faults, subscribed, calls, queueVars, facadeVars, other, parked>>

\* an init() that does not look for an existing instance
WidgetInitAgain(valid) ==
    /\ scenario # "none"
    /\ IF ~valid
       THEN initRet' = "configError" /\ instance' = instance
       ELSE instance \in {"none", "live"} /\ instance' = "live" /\ initRet' = "created"
    /\ UNCHANGED <<store, persisted, nextId, isConnected, syncInProgress, timers, pass, syncRet,
                   attempts, faults, subscribed, calls, queueVars, facadeVars, other, parked>>

\* FeedbackWidget.init(config); valid: projectId and apiKey are both present.
\* The constructor runs up to the first await of offlineQueue.init(). The
\* second construction, after destroy(), is Reinit.
WidgetInit(valid) ==
    /\ scenario # "none"
    /\ IF instance = "live"
       THEN initRet' = "existing" /\ instance' = instance
       ELSE IF ~valid
            THEN initRet' = "configError" /\ instance' = instance
            ELSE instance = "none" /\ instance' = "live" /\ initRet' = "created"
    /\ UNCHANGED <<store, persisted, nextId, isConnected, syncInProgress, timers, pass, syncRet,
                   attempts, faults, subscribed, calls, queueVars, facadeVars, other, parked>>

\* const queue = new OfflineQueue(config); queue.init(): no setSyncCallback
QueueInit ==
    /\ scenario = "none"
    /\ instance = "none"
    /\ instance' = "live"
    /\ initRet' = "created"
    /\ UNCHANGED <<store, persisted, nextId, isConnected, syncInProgress, timers, pass, syncRet,
                   attempts, faults, subscribed, calls, queueVars, facadeVars, other, parked>>

\* FeedbackWidget.destroy(): offlineQueue.destroy() -- unsubscribeNetInfo?.()
\* and appStateSubscription?.remove(), both null until init() has resumed --
\* then instance = null
destroy ==
    /\ IF instance = "live"
       THEN /\ instance' = IF subscribed THEN "destroyed" ELSE "destroyedEarly"
            /\ subscribed' = FALSE
       ELSE UNCHANGED <<instance, subscribed>>
    /\ UNCHANGED <<store, persisted, nextId, isConnected, syncInProgress, timers, pass, syncRet,
                   attempts, faults, calls, queueVars, facadeVars, initRet, other, parked>>

\* init() resumes after await NetInfo.fetch(), whether or not destroy() ran
MonitorResume ==
    /\ instance \in {"live", "destroyedEarly"}
    /\ \E fetched \in BOOLEAN : InitResume(fetched)

\* await queue.enqueue(item) on the live queue
MonitorEnqueue ==
    /\ instance = "live"
    /\ ScenarioEnqueue

MonitorRetries == {1}

MonitorInit ==
    \E configured \in MonitorRetries, env \in {"alwaysOk", "alwaysFail", "none"} :
        /\ Fresh(configured, env)
        /\ instance = "none"
        /\ initRet = "none"

MonitorNext ==
    \/ \E valid \in BOOLEAN : WidgetInit(valid)
    \/ QueueInit
    \/ destroy
    \/ MonitorResume
    \/ \E connected \in BOOLEAN : handleNetworkChange(connected)
    \/ TimerFires
    \/ \E nextAppState \in {"active", "background"} : handleAppStateChange(nextAppState)
    \/ MonitorEnqueue
    \/ EnqueueRead
    \/ EnqueueWrite
    \/ SyncStep

MonitorSpec == MonitorInit /\ [][MonitorNext]_vars

----------------------------------------------------------------------------
(* The queue used directly by a host, over whatever the storage holds at   *)
(* first: records are enqueued, sync() and clear() are called at any time, *)
(* the delivery function always succeeds or always fails, writes land      *)

\* clear(): await AsyncStorage.removeItem(STORAGE_KEY)
clear ==
    /\ store' = <<>>
    /\ persisted' = "missing"
    /\ UNCHANGED <<nextId, isConnected, syncInProgress, timers, pass, syncRet, attempts,
                   faults, subscribed, calls, queueVars, widgetVars, facadeVars>>

\* await queue.sync(), up to its first await, whatever else is in flight
DirectSync ==
    /\ SyncEntry(isConnected)
    /\ UNCHANGED <<store, persisted, nextId, isConnected, timers, attempts, subscribed,
                   calls, queueVars, widgetVars, facadeVars>>

StoreRetries == {1}

StoreInit ==
    \E configured \in StoreRetries, env \in {"alwaysOk", "alwaysFail"},
       data \in PersistedKinds :
        /\ FreshOver(configured, env, data)
        /\ instance = "live"
        /\ initRet = "created"

StoreNext ==
    \/ ScenarioEnqueue
    \/ EnqueueRead
    \/ EnqueueWrite
    \/ DirectSync
    \/ clear
    \/ SyncStep

StoreSpec == StoreInit /\ [][StoreNext]_vars

----------------------------------------------------------------------------
(* The widget with the delivery function its constructor registers: the    *)
(* transport and the screenshot upload succeed or fail as they please, the *)
(* storage works, no observer throws. syncQueuedSubmission never throws,   *)
(* so the catch block of sync() is not entered                             *)

UploadInit == Constructed(FacadeMaxRetries, "facade")

FacadeDrainStep ==
    \/ SyncGetPending
    \/ SyncEvictRead
    \/ SyncEvictWrite
    \/ SyncDeliver
    \/ SyncRemoveRead
    \/ SyncRemoveWrite
    \/ SyncUpdateRead
    \/ SyncUpdateWrite
    \/ SyncDelay

UploadNext ==
    \/ \E fetched \in BOOLEAN : InitResume(fetched)
    \/ \E connected \in BOOLEAN : handleNetworkChange(connected)
    \/ TimerFires
    \/ \E nextAppState \in {"active", "background"} : handleAppStateChange(nextAppState)
    \/ syncOffline
    \/ SubmitCall
    \/ SubmitStep
    \/ FacadeDrainStep

UploadSpec == UploadInit /\ [][UploadNext]_vars

----------------------------------------------------------------------------
(* Recovery after an outage: the widget is live, every delivery succeeds,   *)
(* the storage works, and submissions are made only while the device is    *)
(* offline, so each is queued. Timers, the steps of a pass and of an       *)
(* enqueue, and the resumption of init() are scheduled fairly; network     *)
(* changes, foreground events and submissions happen or not, as they please *)

\* submit() while offline: queueSubmission, enqueue() up to its first await
OfflineEnqueue ==
    /\ ~isConnected
    /\ ScenarioEnqueue

LiveInit == Constructed(FacadeMaxRetries, "alwaysOk")

\* the steps of a pass whose every delivery succeeds and every write lands
DrainStep ==
    \/ SyncGetPending
    \/ SyncDeliver
    \/ SyncRemoveRead
    \/ SyncRemoveWrite
    \/ SyncDelay

LiveNext ==
    \/ \E fetched \in BOOLEAN : InitResume(fetched)
    \/ \E connected \in BOOLEAN : handleNetworkChange(connected)
    \/ TimerFires
    \/ \E nextAppState \in {"active", "background"} : handleAppStateChange(nextAppState)
    \/ OfflineEnqueue
    \/ EnqueueRead
    \/ EnqueueWrite
    \/ DrainStep

Fairness ==
    /\ WF_vars(\E fetched \in BOOLEAN : InitResume(fetched))
    /\ WF_vars(TimerFires)
    /\ WF_vars(EnqueueRead)
    /\ WF_vars(EnqueueWrite)
    /\ WF_vars(DrainStep)

LiveSpec == LiveInit /\ [][LiveNext]_vars /\ Fairness

----------------------------------------------------------------------------
(* Submissions that overlap: a submit() whose queueSubmission was returned *)
(* has cleared the in-flight flag and is unsettled until its enqueue ends; *)
(* meanwhile the facade takes another submit(). sub is the submission      *)
(* whose next step is looked at, parked the one beside it, and TurnToSubmit *)
(* changes over. The widget is as in UploadSpec.                           *)

\* the submission s has returned queueSubmission's promise and waits for it
Detached(s) == s.pc \in {"enqRead", "enqWrite"} /\ s.how # "direct"

\* the event loop turns to the other submission, or leaves a detached one
\* aside (a submission inside the try block holds the flag: beside it there
\* can only be detached ones)
TurnToSubmit ==
    /\ Detached(sub) \/ Detached(parked)
    /\ sub' = parked
    /\ parked' = sub
    /\ UNCHANGED <<store, persisted, nextId, maxRetries, isConnected, syncInProgress, timers,
                   pass, syncRet, attempts, faults, scenario, subscribed, calls,
                   isSubmitting, resp, cb, instance, initRet, other>>

FlightNext ==
    \/ \E fetched \in BOOLEAN : InitResume(fetched)
    \/ \E connected \in BOOLEAN : handleNetworkChange(connected)
    \/ TimerFires
    \/ SubmitCall
    \/ SubmitStep
    \/ TurnToSubmit
    \/ FacadeDrainStep

FlightSpec == UploadInit /\ [][FlightNext]_vars

----------------------------------------------------------------------------
(* The widget of a host whose onSubmitStart, onSubmitSuccess and           *)
(* onSubmitError may throw; the transport and the delivery function do what *)
(* they please, the storage works, the observers of the queue return       *)

HostInit == Constructed(FacadeMaxRetries, "hostThrows")

HostNext ==
    \/ \E fetched \in BOOLEAN : InitResume(fetched)
    \/ \E connected \in BOOLEAN : handleNetworkChange(connected)
    \/ TimerFires
    \/ SubmitCall
    \/ SubmitStep
    \/ SyncStep

HostSpec == HostInit /\ [][HostNext]_vars

----------------------------------------------------------------------------
(* Two lives of the facade: init(), destroy(), init() again. The second    *)
(* init() constructs a new OfflineQueue over the same storage key, while   *)
(* whatever the first one has pending (its init(), its timer, its pass)    *)
(* goes on. The variables of the queue describe one of the two instances,  *)
(* other holds the fields of the one not looked at, and TurnTo changes     *)
(* over: the tasks of the two instances interleave step by step. Every     *)
(* delivery succeeds, the storage works.                                    *)

\* the fields of the instance the queue variables describe
Own == [instance |-> instance, syncInProgress |-> syncInProgress,
        isConnected |-> isConnected, subscribed |-> subscribed,
        timers |-> timers, pass |-> pass]

\* FeedbackWidget.init(config) with a valid config after destroy(): instance
\* is null, so a new FeedbackWidget and a new OfflineQueue are constructed
Reinit ==
    /\ scenario # "none"
    /\ instance \in {"destroyed", "destroyedEarly"}
    /\ other.instance = "none"
    /\ other' = Own
    /\ instance' = "live"
    /\ initRet' = "created"
    /\ syncInProgress' = FALSE
    /\ isConnected' = TRUE
    /\ subscribed' = FALSE
    /\ timers' = 0
    /\ pass' = IdlePass
    /\ UNCHANGED <<store, persisted, nextId, syncRet, attempts, faults, calls,
                   queueVars, facadeVars, parked>>

\* the event loop turns to a task of the other instance
TurnTo ==
    /\ other.instance # "none"
    /\ other' = Own
    /\ instance' = other.instance
    /\ syncInProgress' = other.syncInProgress
    /\ isConnected' = other.isConnected
    /\ subscribed' = other.subscribed
    /\ timers' = other.timers
    /\ pass' = other.pass
    /\ UNCHANGED <<store, persisted, nextId, syncRet, attempts, faults, calls,
                   queueVars, facadeVars, initRet, parked>>

LifeInit ==
    /\ Fresh(FacadeMaxRetries, "alwaysOk")
    /\ instance = "none"
    /\ initRet = "none"

LifeNext ==
    \/ \E valid \in BOOLEAN : WidgetInit(valid)
    \/ destroy
    \/ Reinit
    \/ TurnTo
    \/ MonitorResume
    \/ \E connected \in BOOLEAN : handleNetworkChange(connected)
    \/ TimerFires
    \/ \E nextAppState \in {"active", "background"} : handleAppStateChange(nextAppState)
    \/ MonitorEnqueue
    \/ EnqueueRead
    \/ EnqueueWrite
    \/ DrainStep

LifeSpec == LifeInit /\ [][LifeNext]_vars

----------------------------------------------------------------------------
(* Claims *)

\* the step on which the submitFeedback() call in flight returns
SubmitReturn == sub.pc # "idle" /\ sub.how # "direct" /\ sub'.pc = "idle"

\* the record enqueue() stamps for the call in flight
Stamped == [id |-> sub.id, retryCount |-> 0]

\* C1 as claimed: whenever submit() reaches its routing decision while the
\* online flag is false, it returns success with the identifier offline-<id>,
\* the transport is not invoked, and getPendingCount() after the call is
\* exactly one more than it was when submit() was called.
C1_AsClaimed ==
    [][(SubmitReturn /\ sub.how # "none" /\ ~sub.online)
          => /\ resp'.kind = "offline"
             /\ resp'.id = sub.id
             /\ ~resp'.transport
             /\ getPendingCount' = sub.before + 1]_vars

\* C1 as amended: whenever submit() reaches its routing decision while the
\* online flag is false, the transport is not invoked; if the queue write is
\* accepted submit() returns success with offline-<id>, the new record (retry
\* count 0) is the last one of the persisted queue, and getPendingCount() is
\* exactly one more than the length of the queue enqueue() read; if the write
\* is rejected submit() returns a failure and the persisted queue is as it was.
C1_OfflineSubmit ==
    [][(SubmitReturn /\ sub.how # "none" /\ ~sub.online)
          => /\ ~resp'.transport
             /\ resp'.kind \in {"offline", "queueError"}
             /\ resp'.kind = "offline"
                   => /\ resp'.id = sub.id
                      /\ store' = Append(sub.local, Stamped)
                      /\ getPendingCount' = Len(sub.local) + 1
             /\ resp'.kind = "queueError"
                   => store' = store /\ faults'.storage = faults.storage + 1]_vars

\* an offline submit() has returned success and its record is the queue's last
C1_Witness ==
    /\ resp.kind = "offline"
    /\ resp.how = "offline"
    /\ store # <<>>
    /\ store[Len(store)] = [id |-> resp.id, retryCount |-> 0]

\* the persisted queue holds a record with this id; its retry count there
Has(queue, id) == findIndex(queue, id) # 0
RetryCountIn(queue, id) == queue[findIndex(queue, id)].retryCount

\* the pass is in update(item) for the item whose delivery has just failed
UpdatingFailed(id) ==
    /\ pass.pc \in {"updRead", "updWrite", "cupdRead", "cupdWrite"}
    /\ CurItem.id = id

\* C2: a sync() pass that attempts delivery of a record and fails leaves the
\* stored record's retryCount exactly one greater than before the pass (than
\* in the snapshot); the retryCount of a stored record never decreases and
\* changes in no other way -- here for the runs in which no storage write is
\* rejected and no observer throws.
C2_RetryCountStepsByOne ==
    [][faults' = NoFaults =>
         \A id \in Ids :
            (Has(store, id) /\ Has(store', id)) =>
               \/ RetryCountIn(store', id) = RetryCountIn(store, id)
               \/ /\ UpdatingFailed(id)
                  /\ RetryCountIn(store, id) = pass.pre
                  /\ RetryCountIn(store', id) = pass.pre + 1]_vars

\* the item the for loop comes to on the pass's next step, if any (as a
\* sequence of at most one item)
ReachedItem ==
    IF pass.pc = "getPending"
    THEN (IF store = <<>> THEN <<>> ELSE <<Head(store)>>)
    ELSE IF pass.pc \in {"delay", "evictWrite"} /\ Len(pass.pending) >= 2
         THEN <<pass.pending[2]>>
         ELSE <<>>

\* C3: a record whose retryCount has reached the retry budget when a
\* non-skipped sync() pass comes to it is removed from the queue by that
\* pass, without the delivery function being invoked for it, and is counted
\* in the pass's failed count -- here for the steps on which no observer
\* callback throws.
C3_EvictsAtBudget ==
    [][(pass' # pass /\ faults'.observer = faults.observer) =>
         /\ (ReachedItem # <<>> /\ overBudget(ReachedItem[1]))
               => pass'.pc = "evictRead" /\ Head(pass'.pending) = ReachedItem[1]
         /\ pass.pc = "evictWrite"
               => /\ ~Has(store', CurItem.id)
                  /\ attempts' = attempts
                  /\ pass'.pc # "idle" => pass'.failed = pass.failed + 1
                  /\ (pass'.pc = "idle" /\ syncRet'.kind = "resolved")
                        => syncRet'.failed = pass.failed + 1]_vars

\* the scenario of C4: maxRetries 3, one record enqueued, a delivery function
\* that always fails, and no call in flight
OneRecordAlwaysFailing ==
    /\ scenario = "alwaysFail"
    /\ maxRetries = 3
    /\ nextId = 1
    /\ sub.pc = "idle"
    /\ pass.pc = "idle"

\* C4 as claimed: with maxRetries 3, one record and an always-failing delivery
\* function, the queue is empty after the third completed sync() pass and the
\* fourth sync() call returns {succeeded: 0, failed: 0}.
C4_AsClaimed ==
    OneRecordAlwaysFailing =>
        /\ calls = 3 => store = <<>>
        /\ calls = 4 => syncRet = [kind |-> "resolved", succeeded |-> 0, failed |-> 0]

\* C4 as amended: in that scenario each of the first three sync() passes
\* attempts the record once and returns {0, 1}, leaving it queued with
\* retryCount equal to the number of passes; the fourth pass evicts it without
\* a delivery attempt and returns {0, 1}, leaving the queue empty; every later
\* call returns {0, 0}.
C4_EvictedByFourthPass ==
    OneRecordAlwaysFailing =>
        /\ calls \in 1..3 =>
              /\ store = <<[id |-> 1, retryCount |-> calls]>>
              /\ attempts[1] = calls
              /\ syncRet = [kind |-> "resolved", succeeded |-> 0, failed |-> 1]
        /\ calls = 4 =>
              /\ store = <<>>
              /\ attempts[1] = 3
              /\ syncRet = [kind |-> "resolved", succeeded |-> 0, failed |-> 1]
        /\ calls >= 5 =>
              /\ store = <<>>
              /\ attempts[1] = 3
              /\ syncRet = [kind |-> "resolved", succeeded |-> 0, failed |-> 0]

\* the fourth pass of the scenario has ended
C4_Witness ==
    /\ OneRecordAlwaysFailing
    /\ calls = 4
    /\ store = <<>>
    /\ syncRet.kind = "resolved"
    /\ syncRet.failed = 1

\* a step on which sync() is called, by any of its triggers
SyncCall ==
    \/ InitResume(TRUE)
    \/ TimerFires
    \/ handleAppStateChange("active")
    \/ syncOffline

\* no id occurs twice in the queue
DistinctIds(queue) ==
    \A i, j \in 1..Len(queue) : queue[i].id = queue[j].id => i = j

\* C5: a sync() call that starts while an earlier call has not resolved
\* returns {0, 0}, invokes the delivery function for no record and changes
\* nothing, whichever trigger made it; the delivery function is only ever
\* invoked by the one pass in flight, for the snapshot item it is at, which it
\* then leaves behind, and no id is twice in the snapshot: no record is
\* attempted twice across the two calls.
C5_SecondCallDropped ==
    [][/\ (SyncCall /\ pass.pc # "idle")
            => /\ syncRet' = Skipped
               /\ UNCHANGED <<store, persisted, attempts, pass, syncInProgress, nextId, faults>>
       /\ attempts' # attempts
            => /\ pass.pc = "deliver"
               /\ attempts' = [attempts EXCEPT ![CurItem.id] = @ + 1]
               /\ pass'.pc \in {"rmRead", "updRead", "cupdRead"}
               /\ pass'.pending[1].id = CurItem.id
               /\ DistinctIds(pass.pending)]_vars

\* a call was dropped while a pass is in flight, before init() has run (the
\* online flag still has its initial value true)
C5_Witness ==
    /\ ~subscribed
    /\ isConnected
    /\ syncRet = Skipped
    /\ pass.pc \in {"deliver", "rmWrite", "updWrite"}

\* C6: for every N >= 0, enqueuing N records and then running one sync()
\* while online with a delivery function that always succeeds ends with an
\* empty queue and returns {succeeded: N, failed: 0}, each record having been
\* attempted once.
C6_DrainRoundTrip ==
    (scenario = "alwaysOk" /\ calls = 1 /\ pass.pc = "idle")
        => /\ store = <<>>
           /\ syncRet = [kind |-> "resolved", succeeded |-> nextId, failed |-> 0]
           /\ \A id \in Ids : attempts[id] = (IF id <= nextId THEN 1 ELSE 0)

\* two records were enqueued and one pass has delivered both
C6_Witness ==
    /\ scenario = "alwaysOk"
    /\ calls = 1
    /\ pass.pc = "idle"
    /\ nextId >= 2
    /\ syncRet.succeeded = nextId
    /\ store = <<>>

\* C7: in every execution the delivery function is invoked for any one
\* record id at most maxRetries times -- here for the executions in which no
\* storage write is rejected and no observer throws.
C7_AttemptsWithinBudget ==
    faults = NoFaults => \A id \in Ids : attempts[id] <= retryBudget

\* C8: sync() never rejects or throws to its caller, whatever the delivery
\* function and the storage writes of remove/update do -- here for the
\* executions in which no observer callback throws.
C8_SyncNeverRejects ==
    faults.observer = 0 => syncRet.kind # "rejected"

\* C9: once a pass has invoked the delivery function for a record, by the
\* time it moves on the persisted store no longer contains the record (the
\* delivery succeeded) or contains it with retryCount one higher than in the
\* snapshot (the delivery failed) -- here for the executions in which no
\* storage write is rejected and no observer throws.
C9_AttemptCommitted ==
    (pass.pc = "delay" /\ faults = NoFaults) =>
        IF CurItem.retryCount = pass.pre
        THEN ~Has(store, CurItem.id)
        ELSE Has(store, CurItem.id) /\ RetryCountIn(store, CurItem.id) = pass.pre + 1

\* the text contains one of the five markers, letter case ignored
MatchesMarkerList(text) ==
    \E k \in 1..Len(networkErrors) :
        includes(toLowerCase(text), toLowerCase(networkErrors[k]))

\* C10: when submit() runs while online and the transport fails with the text
\* 'Network request failed', or any text matching the marker list, the
\* submission ends up as a new record of the queue, submit() returns success
\* with the offline identifier and onSubmitError is not invoked -- here for
\* the calls during which no storage write is rejected.
C10_NetworkFailureQueued ==
    [][(/\ sub.pc # "idle"
        /\ sub'.pc = "idle"
        /\ resp'.how \in {"returned", "thrown"}
        /\ MatchesMarkerList(ErrorTexts[resp'.text])
        /\ faults'.storage = faults.storage)
          => /\ resp'.kind = "offline"
             /\ Has(store', resp'.id)
             /\ cb'.error = 0]_vars

\* the step on which transport.submitFeedback fails, by return or by throw,
\* with the error text ErrorTexts[t]
TransportFailure(t) ==
    /\ sub.pc = "transport"
    /\ t = (IF sub'.pc = "idle" THEN resp'.text ELSE sub'.text)

\* C11: when the transport fails with an error text that contains no network
\* marker, submit() returns a failure response carrying that error, invokes
\* onSubmitError (once), and enqueues nothing: the persisted queue is as it
\* was, as it is after every step of a submit() that is not an enqueue write.
C11_UnclassifiedSurfaced ==
    [][/\ \A t \in 1..Len(ErrorTexts) :
            (TransportFailure(t) /\ ~MatchesMarkerList(ErrorTexts[t]))
               => /\ sub'.pc = "idle"
                  /\ resp'.kind = "error"
                  /\ ~success(resp')
                  /\ resp'.text = t
                  /\ cb'.error = 1
                  /\ cb'.success = 0
                  /\ store' = store
                  /\ nextId' = nextId
       /\ (sub' # sub /\ sub.pc # "enqWrite") => store' = store]_vars

\* a submit() has returned the failure 'Invalid title' and told onSubmitError
C11_Witness ==
    /\ resp.kind = "error"
    /\ resp.text # 0
    /\ ErrorTexts[resp.text] = InvalidTitle
    /\ cb.error = 1
    /\ ~isSubmitting

\* the step on which a failed transport call is classified sends the
\* submission to the queue
SentToQueue == sub'.pc \in {"enqRead", "catchContext"}

\* C12: a transport failure is classified as a network error exactly when its
\* error text contains, letter case ignored, one of the five markers network,
\* fetch, timeout, offline, ECONNREFUSED: such a text leads to enqueue, any
\* other to a surfaced error.
C12_ClassifiedByMarkers ==
    [][\A t \in 1..Len(ErrorTexts) :
          TransportFailure(t) =>
             /\ SentToQueue <=> MatchesMarkerList(ErrorTexts[t])
             /\ (sub'.pc = "idle" /\ resp'.kind = "error")
                   <=> ~MatchesMarkerList(ErrorTexts[t])]_vars

\* C13: for every error text submit() behaves the same whether the transport
\* throws it or returns it: the same enqueue-or-surface decision, and, when
\* enqueued, a queued record carrying the same submission fields, the
\* submitter's name and email included when a user is configured.
C13_ThrownLikeReturned ==
    [][/\ \A t \in 1..Len(ErrorTexts) :
            TransportFailure(t) => (SentToQueue <=> isNetworkError(ErrorTexts[t]))
       /\ (sub.pc # "enqRead" /\ sub'.pc = "enqRead" /\ sub'.how \in {"returned", "thrown"})
            => \A user \in BOOLEAN :
                  queuedFields(sub'.how, user) = queuedFields("returned", user)]_vars

\* a submit() through the facade has not settled
InFlight == sub.pc # "idle" /\ sub.how # "direct"

\* C14: while a submit() has not settled, every further submit() returns the
\* failure 'already in progress' without invoking the transport, enqueuing
\* anything or invoking a callback, and without clearing the in-flight flag;
\* at most one submission is engaged with the transport or the queue at a
\* time.
C14_SingleFlight ==
    [][/\ (SubmitCall /\ (InFlight \/ parked.pc # "idle"))
            => /\ resp' = Busy
               /\ ~success(resp')
               /\ ~resp'.transport
               /\ UNCHANGED <<isSubmitting, sub, cb, store, nextId>>
       /\ ~(sub.pc # "idle" /\ parked.pc # "idle")]_vars

\* nothing of a queue or of its monitor is at work
NoMonitor ==
    /\ ~subscribed
    /\ timers = 0
    /\ pass.pc = "idle"
    /\ ~syncInProgress
    /\ store = <<>>

\* C15 as claimed: init(config) with apiKey or projectId missing raises a
\* configuration error, and afterwards no singleton exists.
C15_AsClaimed ==
    [][WidgetInit(FALSE) => (initRet' = "configError" /\ instance' # "live")]_vars

\* C15 as amended: init(config) with apiKey or projectId missing, called while
\* no instance exists, raises a configuration error, creates no singleton and
\* changes nothing, and as long as no instance was ever created no queue or
\* listener is at work; called while an instance exists it returns that
\* instance without raising.
C15_ConfigErrorWithoutInstance ==
    [][/\ instance = "none" => NoMonitor
       /\ WidgetInit(FALSE) =>
             IF instance = "live"
             THEN initRet' = "existing" /\ instance' = "live"
             ELSE /\ initRet' = "configError"
                  /\ instance' = instance
                  /\ UNCHANGED <<subscribed, timers, pass, syncInProgress, store,
                                 isConnected, maxRetries>>]_vars

\* init() has raised the configuration error and there is no instance
C15_Witness ==
    /\ initRet = "configError"
    /\ instance = "none"
    /\ NoMonitor

\* C16: init() called while an instance exists returns that instance without
\* raising, constructs no second queue or monitor, registers no listener and
\* leaves the instance's configuration as it is, however often it is called.
C16_InitIsIdempotent ==
    [][((\E valid \in BOOLEAN : WidgetInit(valid)) /\ instance = "live")
          => /\ initRet' = "existing"
             /\ UNCHANGED <<instance, subscribed, timers, pass, syncInProgress, syncRet,
                            store, nextId, isConnected, maxRetries, scenario>>]_vars

\* init() has returned the existing instance, whose monitor is subscribed
C16_Witness ==
    /\ initRet = "existing"
    /\ instance = "live"
    /\ subscribed

\* C17: after destroy() has returned no sync pass is started on the destroyed
\* instance and neither listener is subscribed, at whatever point destroy()
\* was called.
C17_QuietAfterDestroy ==
    [][(instance \in {"destroyed", "destroyedEarly"})
          => (~subscribed' /\ (pass.pc = "idle" => pass'.pc = "idle"))]_vars

\* C18: a sync() call made while the online flag is false, or while no
\* delivery function is registered, returns {0, 0} and leaves everything as
\* it is: no delivery attempt, no record removed or updated, the in-progress
\* flag untouched, no pass begun and no observer called.
C18_OfflineOrUnregisteredSkips ==
    [][(SyncCall /\ (~isConnected' \/ scenario = "none"))
          => /\ syncRet' = Skipped
             /\ UNCHANGED <<store, persisted, attempts, pass, syncInProgress, faults, nextId>>]_vars

\* the reconnect timer fired after the device had gone offline again, with a
\* record waiting: the call was dropped
C18_Witness ==
    /\ syncRet = Skipped
    /\ ~isConnected
    /\ scenario = "alwaysOk"
    /\ pass.pc = "idle"
    /\ store # <<>>
    /\ \A id \in Ids : attempts[id] = 0

\* the ids of the queue ascend: its records are in the order of their enqueue
InEnqueueOrder(queue) ==
    \A i, j \in 1..Len(queue) : i < j => queue[i].id < queue[j].id

\* C19: within one pass the delivery function is invoked on the records in
\* the order they were enqueued, one at a time, each attempt starting only
\* when no removal or update of the pass is under way; the snapshot is the
\* stored queue, and the stored queue keeps its records in enqueue order
\* whatever has failed before.
C19_FifoOneAtATime ==
    [][/\ InEnqueueOrder(store)
       /\ InEnqueueOrder(store')
       /\ InEnqueueOrder(pass.pending)
       /\ (pass.pc = "getPending" /\ pass'.pc \notin {"idle", "getPending"})
             => pass'.pending = store
       /\ attempts' # attempts
             => /\ pass.pc = "deliver"
                /\ pass.local = <<>>
                /\ attempts' = [attempts EXCEPT ![CurItem.id] = @ + 1]]_vars

\* the pass is at the second record after the first one failed and stayed
\* in front of it
C19_Witness ==
    /\ pass.pc = "deliver"
    /\ Len(store) = 2
    /\ store[1].retryCount > 0
    /\ CurItem = store[2]

\* C20: for every record whose delivery attempt in a pass fails, by a
\* returned false or by a throw, onSubmissionFailed is invoked exactly once
\* for it in that pass and the record stays in the queue; for every record
\* delivered, onSubmissionSynced is invoked exactly once.
C20_SignalledOnce ==
    (pass.pc = "delay" /\ scenario \in {"alwaysOk", "alwaysFail"})
        => IF CurItem.retryCount = pass.pre
           THEN pass.signals = <<"synced">>
           ELSE pass.signals = <<"failed">> /\ Has(store, CurItem.id)

\* C21: the retry budget the drain applies is the configured maxRetries for
\* every configured value, 0 included, and 3 when none is configured: a
\* record the pass comes to is evicted, without a delivery attempt, exactly
\* when its retryCount >= that value, and is attempted otherwise.
C21_BudgetIsConfigured ==
    [][/\ constructorMaxRetries(Unset) = 3
       /\ \A configured \in ScenarioRetries \ {Unset} :
             constructorMaxRetries(configured) = configured
       /\ (pass' # pass /\ ReachedItem # <<>>)
             => /\ pass'.pc = "evictRead" <=> ReachedItem[1].retryCount >= maxRetries
                /\ pass'.pc = "deliver" <=> ReachedItem[1].retryCount < maxRetries
                /\ attempts' = attempts]_vars

\* C22: a network-change event that flips the online flag from false to true
\* schedules exactly one sync attempt and starts none itself; no other step
\* schedules one (an event that leaves the flag true or sets it false does
\* not); each scheduled attempt is one sync() call made when its timer
\* fires, and a no-op if the flag is false by then.
C22_ReconnectSchedulesOne ==
    [][/\ (~isConnected /\ isConnected')
            => /\ timers' = timers + 1
               /\ UNCHANGED <<pass, syncInProgress, syncRet, store, attempts>>
       /\ timers' > timers => (~isConnected /\ isConnected')
       /\ \A connected \in BOOLEAN :
             (handleNetworkChange(connected) /\ (isConnected \/ ~connected))
                => UNCHANGED <<timers, pass, syncInProgress, syncRet, store, attempts>>
       /\ timers' < timers
            => /\ timers' = timers - 1
               /\ TimerFires
               /\ syncRet' \in {Skipped, Running}
               /\ syncRet' = Running <=> (isConnected /\ ~syncInProgress /\ scenario # "none")
       /\ (TimerFires /\ ~isConnected)
            => /\ syncRet' = Skipped
               /\ UNCHANGED <<pass, syncInProgress, store, attempts, faults>>]_vars

\* the flag has flipped back to true with a record waiting: the attempt is
\* scheduled and nothing has been attempted
C22_Witness ==
    /\ subscribed
    /\ isConnected
    /\ timers = 1
    /\ pass.pc = "idle"
    /\ ~syncInProgress
    /\ store # <<>>
    /\ \A id \in Ids : attempts[id] = 0

\* C23: an application-state event with next state 'active' received while
\* the online flag is true makes one sync() call at once (a pass begins
\* unless one is in flight or no delivery function is registered); an event
\* for any other state, or received while offline, calls nothing and changes
\* no state; and a pass begun while the monitor is subscribed and no timer
\* fires was begun by such an event, with the flag true.
C23_ForegroundSyncsWhenOnline ==
    [][/\ \A nextAppState \in {"active", "background"} :
             handleAppStateChange(nextAppState)
                => IF nextAppState = "active" /\ isConnected
                   THEN /\ syncRet' \in {Skipped, Running}
                        /\ syncRet' = Running
                              <=> (~syncInProgress /\ scenario # "none")
                        /\ syncRet' = Running
                              => pass'.pc = "getPending" /\ syncInProgress'
                        /\ UNCHANGED <<store, persisted, attempts, timers, isConnected>>
                   ELSE UNCHANGED vars
       /\ (pass.pc = "idle" /\ pass'.pc = "getPending" /\ subscribed
                /\ timers' = timers)
             => (isConnected /\ handleAppStateChange("active"))]_vars

\* a pass has just begun while the reconnect timer is still pending
C23_Witness ==
    /\ subscribed
    /\ isConnected
    /\ timers = 1
    /\ pass.pc = "getPending"
    /\ syncRet = Running
    /\ store # <<>>

\* every record whose enqueue() has been called has been handed to the
\* delivery function and is no longer in the queue
AllDelivered ==
    \A id \in 1..nextId : attempts[id] > 0 /\ ~Has(store, id)

\* C24: if connectivity returns and stays up, every submission queued while
\* offline is eventually delivered and removed from the queue, with no
\* foreground event and no explicit sync being needed, also when it was
\* enqueued while an earlier pass was running.
C24_QueuedOfflineDelivered ==
    <>[]isConnected => <>[]AllDelivered

\* C25: the delivery function is invoked only while the online flag is true:
\* no attempt is started, and so no retryCount incremented, once
\* connectivity has been lost in the middle of a pass.
C25_DeliversOnlyOnline ==
    [][attempts' # attempts => isConnected]_vars

\* C26: update(item) for an id it does not find in the store writes nothing
\* and leaves the store as it is: a record removed or cleared while the pass
\* was delivering it is not put back by the pass's failure handling, which
\* goes on to the next record; update writes only a queue in which it found
\* the id.
C26_UpdateOfAbsentIsNoOp ==
    [][/\ (/\ pass.pc \in {"updRead", "cupdRead"}
           /\ pass' # pass
           /\ parsesToArray
           /\ ~Has(getQueue, CurItem.id))
             => /\ UNCHANGED <<store, persisted>>
                /\ ~Has(store', CurItem.id)
                /\ pass'.pc = "delay"
                /\ pass'.failed = pass.failed + 1
       /\ pass'.pc \in {"updWrite", "cupdWrite"} => Has(pass'.local, CurItem.id)]_vars

\* the queue was cleared while the only record was being delivered; the
\* delivery failed, and the pass has moved on with the store still empty
C26_Witness ==
    /\ pass.pc = "delay"
    /\ CurItem.retryCount = pass.pre + 1
    /\ attempts[CurItem.id] = 1
    /\ persisted = "missing"
    /\ store = <<>>

\* C27: while the persisted data is missing, unreadable or corrupt, every
\* operation that reads it treats the queue as empty and raises nothing:
\* getPendingCount() is 0, a sync() pass finds no record and returns {0, 0},
\* enqueue reads an empty queue and then stores exactly its new record, and
\* the reads of remove and update find an empty queue.
C27_UnreadableIsEmpty ==
    [][persisted # "queue" =>
         /\ getPendingCount = 0
         /\ (pass.pc = "getPending" /\ pass' # pass)
               => /\ pass'.pc = "idle"
                  /\ syncRet' = [kind |-> "resolved", succeeded |-> 0, failed |-> 0]
                  /\ UNCHANGED <<store, persisted, attempts>>
         /\ (sub.pc = "enqRead" /\ sub' # sub)
               => /\ sub'.pc = "enqWrite"
                  /\ sub'.local = <<>>
                  /\ pushItem(sub'.local, Stamped) = <<Stamped>>
         /\ (pass.pc \in {"evictRead", "rmRead"} /\ pass' # pass)
               => pass'.pc \in {"evictWrite", "rmWrite"} /\ pass'.local = <<>>
         /\ (pass.pc \in {"updRead", "cupdRead"} /\ pass' # pass)
               => pass'.pc = "delay" /\ UNCHANGED <<store, persisted>>]_vars

\* C28: a failed screenshot upload neither blocks nor reverses a primary
\* submission that has succeeded. In submit(), whatever the upload does, the
\* call returns the transport's success response and invokes onSubmitSuccess
\* once, never onSubmitError, and enqueues nothing; in a pass, a delivery
\* whose upload has failed still counts as delivered: the record is removed
\* and counted as succeeded.
C28_UploadFailureHarmless ==
    [][/\ (sub.pc = "upload" /\ sub' # sub)
            => /\ sub'.pc = "idle"
               /\ resp'.kind = "server"
               /\ success(resp')
               /\ resp'.how \in {"uploaded", "uploadFailed"}
               /\ cb'.success = cb.success + 1
               /\ cb'.error = cb.error
               /\ UNCHANGED <<store, persisted, nextId>>
       /\ pass'.upload = "failed" => pass'.pc \in {"rmRead", "rmWrite", "delay"}
       /\ (pass.pc = "rmWrite" /\ pass.upload = "failed" /\ pass' # pass)
            => /\ pass'.pc = "delay"
               /\ ~Has(store', CurItem.id)
               /\ pass'.succeeded = pass.succeeded + 1
               /\ pass'.failed = pass.failed]_vars

\* a submit() has returned success although its upload failed, and a pass
\* has removed a record whose upload failed and counted it as succeeded
C28_Witness ==
    /\ resp.kind = "server"
    /\ resp.how = "uploadFailed"
    /\ cb.success = 1
    /\ cb.error = 0
    /\ pass.pc = "delay"
    /\ pass.upload = "failed"
    /\ pass.succeeded >= 1
    /\ ~Has(store, CurItem.id)

\* C29: an enqueue() whose write is accepted appends exactly one record at
\* the tail of the persisted queue, with retryCount 0 and a fresh id, which
\* it returns (submit() hands it on as offline-<id>); the records the queue
\* holds keep their content and their order, and none of them has that id.
C29_EnqueueAppendsOne ==
    [][(sub.pc = "enqWrite" /\ sub' # sub /\ faults' = faults)
          => /\ store' = Append(store, Stamped)
             /\ Stamped.retryCount = 0
             /\ ~Has(store, sub.id)
             /\ sub.how # "direct" => (resp'.kind = "offline" /\ resp'.id = sub.id)]_vars

\* C30: store mutations never overwrite each other, however an enqueue and
\* the remove/update of a running pass interleave: a record leaves the queue
\* only when the pass removes it; a record enters the queue only by its own
\* enqueue, so one that was removed never reappears; and the retryCount of a
\* stored record never goes back -- here for the runs in which no storage
\* write is rejected and no observer throws.
C30_NoLostUpdate ==
    [][faults' = NoFaults =>
         \A id \in Ids :
            /\ (Has(store, id) /\ ~Has(store', id))
                  => (pass.pc \in {"rmWrite", "evictWrite"} /\ CurItem.id = id)
            /\ (~Has(store, id) /\ Has(store', id))
                  => (sub.pc = "enqWrite" /\ sub.id = id)
            /\ (Has(store, id) /\ Has(store', id))
                  => RetryCountIn(store', id) >= RetryCountIn(store, id)]_vars


\* C31: at any time at most one drain pass is active against the persisted
\* queue, also across the lives of the facade: the pass of an instance that
\* was destroyed and a pass of the instance constructed after it never run
\* at the same time, and no record is held for delivery by both at once.
C31_OnePassAtATime ==
    /\ ~(pass.pc # "idle" /\ other.pass.pc # "idle")
    /\ ~(/\ pass.pc \in {"deliver", "rmRead", "rmWrite"}
         /\ other.pass.pc \in {"deliver", "rmRead", "rmWrite"}
         /\ Head(pass.pending).id = Head(other.pass.pending).id)


\* C32: the in-progress flag of the Sync Engine is true only while a drain
\* pass is running: however a sync() call that was not skipped ends, the
\* flag is false afterwards.
C32_FlagOnlyWhilePassRuns == syncInProgress => pass.pc # "idle"


\* C33: the in-flight flag of the facade is true only while a submit() is
\* unsettled: however a submit() that passed the guard ends, a throwing host
\* callback included, the flag is false afterwards.
C33_FlagOnlyWhileSubmitting == isSubmitting => InFlight


\* the callbacks the submit() that last passed the guard has invoked
Invoked(start, succ, err) == cb = [start |-> start, success |-> succ, error |-> err]

\* C34: every submit() that passes the guard invokes onSubmitStart exactly
\* once and then at most one of onSubmitSuccess and onSubmitError:
\* onSubmitSuccess exactly when the transport confirmed the delivery,
\* onSubmitError exactly when an unclassified failure is surfaced, neither
\* when the submission goes to the queue; no submission is both reported as
\* delivered and enqueued.
C34_CallbacksFollowOutcome ==
    /\ cb.start <= 1
    /\ cb.success + cb.error <= cb.start
    /\ cb.success = 1 <=> (sub.pc = "idle" /\ resp.kind = "server")
    /\ cb.error = 1 <=> (sub.pc = "idle" /\ resp.kind = "error")
    /\ Detached(sub) => Invoked(1, 0, 0)
    /\ (sub.pc = "idle" /\ resp.kind \in {"offline", "queueError"}) => Invoked(1, 0, 0)


\* the pass is inside its for loop
InLoop(p) == p.pc \notin {"idle", "getPending"}

\* the records of the snapshot the pass p has counted or has still to count
\* (at "delay" the current one is counted and not yet taken off)
Counted(p) ==
    p.succeeded + p.failed + Len(p.pending) - (IF p.pc = "delay" THEN 1 ELSE 0)

\* the step on which a sync() pass completes: the call resolves
Completes == pass.pc # "idle" /\ pass'.pc = "idle" /\ syncRet'.kind = "resolved"

\* C35: a sync() pass that completes has counted every record of the
\* snapshot it read at its start exactly once, as succeeded if and only if
\* the record was delivered, and returns these counts.
C35_EveryRecordCountedOnce ==
    [][/\ (pass.pc = "getPending" /\ InLoop(pass')) => Counted(pass') = Len(getQueue)
       /\ (InLoop(pass) /\ InLoop(pass')) => Counted(pass') = Counted(pass)
       /\ Completes
            => syncRet'.succeeded + syncRet'.failed
                 = (IF InLoop(pass) THEN Counted(pass) ELSE Len(getQueue))
       /\ (pass.pc \in {"rmRead", "rmWrite"} /\ pass' # pass)
            => /\ pass'.pc \in {"rmWrite", "delay"}
               /\ pass'.failed = pass.failed
       /\ (InLoop(pass') /\ pass'.succeeded # pass.succeeded)
            => /\ pass.pc = "rmWrite"
               /\ pass'.succeeded = pass.succeeded + 1]_vars

====
